---------------------------- MODULE Spec2Model ----------------------------
(***************************************************************************)
(* The Bell-state notebook (quantum-project.ipynb) as a state machine.     *)
(*                                                                         *)
(* The notebook builds a circuit over a 2-qubit register q and a 2-bit     *)
(* classical register c: h(q[0]); cx(q[0], q[1]); measure(q, c), and runs  *)
(* it shot by shot on a state-vector simulator, tallying the outcomes.     *)
(*                                                                         *)
(* Amplitudes are kept exactly.  A state vector is a record                *)
(*      [amp : 0..3 -> Int, den : Nat \ {0}, k : 0..1]                     *)
(* standing for the real vector  amp[i] / (den * sqrt(2)^k).  Basis index  *)
(* i holds qubit q in bit q of i (q[0] is the least significant bit), and  *)
(* the outcome string is written c[1]c[0].                                 *)
(*                                                                         *)
(* The gates and the measurement are the simulator's: they are modelled by *)
(* what the notebook's calls do (H and CX as the real matrices its text    *)
(* describes, measurement as a draw by cumulative probability), for the    *)
(* valid indices the notebook uses and their symmetric counterparts.       *)
(***************************************************************************)
EXTENDS Integers, Sequences, FiniteSets, TLC

VARIABLES
    state,   \* the state vector of the current shot
    nmeas,   \* measurements performed on this state vector since it was built
    creg,    \* the classical register c: an outcome string, or "none" before measurement
    counts,  \* the histogram: outcome string -> count, keys only for outcomes seen
    shots,   \* the number of shots of the run
    shot,    \* shots completed so far
    pc,      \* the next instruction of the run
    hist     \* the operations applied to the current state vector, oldest first

vars == <<state, nmeas, creg, counts, shots, shot, pc, hist>>

-----------------------------------------------------------------------------
(* Bounds of the model *)

MaxShots == 4
MaxDen == 3
MaxOps == 2
RngRes == 3

-----------------------------------------------------------------------------
(* Registers *)

NumQubits == 2

Qubits == 0 .. (NumQubits - 1)

Basis == 0 .. (2 ^ NumQubits - 1)

Bit(i, q) == (i \div (2 ^ q)) % 2

Flip(i, q) == IF Bit(i, q) = 0 THEN i + 2 ^ q ELSE i - 2 ^ q

BitString(i) ==
    CASE i = 0 -> "00"
      [] i = 1 -> "01"
      [] i = 2 -> "10"
      [] i = 3 -> "11"

-----------------------------------------------------------------------------
(* Exact state vectors *)

Abs(x) == IF x < 0 THEN -x ELSE x

RECURSIVE GCD(_, _)
GCD(a, b) == IF b = 0 THEN Abs(a) ELSE GCD(b, Abs(a) % Abs(b))

Scale(s) == s.den * s.den * (2 ^ s.k)

NormSq(s) == s.amp[0] * s.amp[0] + s.amp[1] * s.amp[1]
             + s.amp[2] * s.amp[2] + s.amp[3] * s.amp[3]

Normalized(s) == NormSq(s) = Scale(s)

Common(s) == GCD(GCD(GCD(s.amp[0], s.amp[1]), GCD(s.amp[2], s.amp[3])), s.den)

Reduce(s) ==
    LET g == Common(s)
    IN  [amp |-> [i \in Basis |-> s.amp[i] \div g], den |-> s.den \div g, k |-> s.k]

BasisState(b) == [amp |-> [i \in Basis |-> IF i = b THEN 1 ELSE 0], den |-> 1, k |-> 0]

ZeroState == BasisState(0)

IsBasisState(s) == \E b \in Basis : s = BasisState(b)

Canonical(s) == Common(s) = 1

NormalizedInputs ==
    {s \in [amp : [Basis -> (-(2 * MaxDen)) .. (2 * MaxDen)], den : 1 .. MaxDen, k : 0 .. 1] :
        Normalized(s) /\ Canonical(s)}

-----------------------------------------------------------------------------
(* Gates *)

\* Hadamard that forgets the 1/sqrt(2) factor.
apply_hadamard_unscaled(s, q) ==
    Reduce([amp |-> [i \in Basis |->
                        IF Bit(i, q) = 0
                        THEN s.amp[i] + s.amp[Flip(i, q)]
                        ELSE s.amp[Flip(i, q)] - s.amp[i]],
            den |-> s.den,
            k   |-> s.k])

\* Hadamard with the sign on the wrong matrix entry: (1/sqrt 2) [[1, 1], [-1, 1]].
apply_hadamard_wrong_sign(s, q) ==
    Reduce([amp |-> [i \in Basis |->
                        IF Bit(i, q) = 0
                        THEN s.amp[i] + s.amp[Flip(i, q)]
                        ELSE s.amp[i] - s.amp[Flip(i, q)]],
            den |-> IF s.k = 1 THEN 2 * s.den ELSE s.den,
            k   |-> 1 - s.k])

\* Hadamard acting on the other qubit of the register.
apply_hadamard_other_qubit(s, q) ==
    Reduce([amp |-> [i \in Basis |->
                        IF Bit(i, 1 - q) = 0
                        THEN s.amp[i] + s.amp[Flip(i, 1 - q)]
                        ELSE s.amp[Flip(i, 1 - q)] - s.amp[i]],
            den |-> IF s.k = 1 THEN 2 * s.den ELSE s.den,
            k   |-> 1 - s.k])

\* H on qubit q: the pair (a0, a1) of amplitudes that differ in bit q becomes
\* ((a0 + a1) / sqrt 2, (a0 - a1) / sqrt 2).
apply_hadamard(s, q) ==
    Reduce([amp |-> [i \in Basis |->
                        IF Bit(i, q) = 0
                        THEN s.amp[i] + s.amp[Flip(i, q)]
                        ELSE s.amp[Flip(i, q)] - s.amp[i]],
            den |-> IF s.k = 1 THEN 2 * s.den ELSE s.den,
            k   |-> 1 - s.k])

\* Controlled-NOT that copies instead of swapping: only the amplitude with the
\* target bit set is overwritten.
apply_controlled_not_copy(s, c, t) ==
    [amp |-> [i \in Basis |->
                 IF Bit(i, c) = 1 /\ Bit(i, t) = 1 THEN s.amp[Flip(i, t)] ELSE s.amp[i]],
     den |-> s.den,
     k   |-> s.k]

\* Controlled-NOT that flips the target when the control bit is 0.
apply_controlled_not_inverted(s, c, t) ==
    [amp |-> [i \in Basis |-> IF Bit(i, c) = 0 THEN s.amp[Flip(i, t)] ELSE s.amp[i]],
     den |-> s.den,
     k   |-> s.k]

\* CX with control c and target t: where the control bit is 1 the amplitudes of
\* the two basis states that differ in the target bit are exchanged.
apply_controlled_not(s, c, t) ==
    [amp |-> [i \in Basis |-> IF Bit(i, c) = 1 THEN s.amp[Flip(i, t)] ELSE s.amp[i]],
     den |-> s.den,
     k   |-> s.k]

-----------------------------------------------------------------------------
(* Measurement *)

\* Probability of basis state i, in units of 1 / Scale(s).
Weight(s, i) == s.amp[i] * s.amp[i]

RECURSIVE Cumulative(_, _)
Cumulative(s, i) == IF i = 0 THEN Weight(s, 0) ELSE Cumulative(s, i - 1) + Weight(s, i)

\* The values the uniform random source can supply: r stands for the real number
\* r / (RngRes * Scale(s)) of [0, 1).
Draws(s) == 0 .. (RngRes * Scale(s) - 1)

\* Sampling that compares with >= : a draw on a boundary selects the basis state
\* below it.
measure_all_inclusive(s, r) ==
    BitString(CHOOSE i \in Basis :
                  /\ RngRes * Cumulative(s, i) >= r
                  /\ \A j \in Basis : j < i => RngRes * Cumulative(s, j) < r)

\* Sampling that ignores the amplitudes: every basis state is equally likely.
measure_all_uniform(s, r) ==
    BitString((r * (2 ^ NumQubits)) \div (RngRes * Scale(s)))

\* The outcome drawn for r: the bitstring of the first basis state whose
\* cumulative probability exceeds r.
measure_all(s, r) ==
    BitString(CHOOSE i \in Basis :
                  /\ RngRes * Cumulative(s, i) > r
                  /\ \A j \in Basis : j < i => RngRes * Cumulative(s, j) <= r)

IndexOf(b) == CHOOSE i \in Basis : BitString(i) = b

\* The state vector after the measurement returned b.
Collapsed(b) == BasisState(IndexOf(b))

Op(name, a, b, pre, post) == [op |-> name, a |-> a, b |-> b, pre |-> pre, post |-> post]

\* The histogram as the plot reads it: 0 for an outcome that has no key.
Outcomes == {BitString(i) : i \in Basis}

Count(h, o) == IF o \in DOMAIN h THEN h[o] ELSE 0

Total(h) == Count(h, "00") + Count(h, "01") + Count(h, "10") + Count(h, "11")

-----------------------------------------------------------------------------
(* The circuit of the notebook *)

HQubit == 0

CXControl == 0

CXTarget == 1

-----------------------------------------------------------------------------
(* The run: every shot builds the state, applies the circuit, tallies *)

Init ==
    /\ shots \in 1 .. MaxShots
    /\ shot = 0
    /\ counts = <<>>
    /\ state = ZeroState
    /\ nmeas = 0
    /\ creg = "none"
    /\ hist = <<>>
    /\ pc = "init"

\* A shot that goes on with the state vector the previous shot left.
InitShotCarry ==
    /\ pc = "init"
    /\ state' = state
    /\ nmeas' = 0
    /\ creg' = "none"
    /\ hist' = <<>>
    /\ pc' = "h"
    /\ UNCHANGED <<counts, shots, shot>>

\* A shot starts from the all-zero state with an unwritten classical register.
InitShot ==
    /\ pc = "init"
    /\ state' = ZeroState
    /\ nmeas' = 0
    /\ creg' = "none"
    /\ hist' = <<>>
    /\ pc' = "h"
    /\ UNCHANGED <<counts, shots, shot>>

\* A Hadamard after which the run goes straight to the measurement.
StepHSkipsCX ==
    /\ pc = "h"
    /\ state' = apply_hadamard(state, HQubit)
    /\ hist' = Append(hist, Op("h", HQubit, HQubit, state, state'))
    /\ pc' = "measure"
    /\ UNCHANGED <<nmeas, creg, counts, shots, shot>>

\* circuit.h(q[0])
StepH ==
    /\ pc = "h"
    /\ state' = apply_hadamard(state, HQubit)
    /\ hist' = Append(hist, Op("h", HQubit, HQubit, state, state'))
    /\ pc' = "cx"
    /\ UNCHANGED <<nmeas, creg, counts, shots, shot>>

\* A controlled-NOT that also stores a value in the classical register.
StepCXWritesCreg ==
    /\ pc = "cx"
    /\ state' = apply_controlled_not(state, CXControl, CXTarget)
    /\ hist' = Append(hist, Op("cx", CXControl, CXTarget, state, state'))
    /\ creg' = "00"
    /\ pc' = "measure"
    /\ UNCHANGED <<nmeas, counts, shots, shot>>

\* circuit.cx(q[0], q[1])
StepCX ==
    /\ pc = "cx"
    /\ state' = apply_controlled_not(state, CXControl, CXTarget)
    /\ hist' = Append(hist, Op("cx", CXControl, CXTarget, state, state'))
    /\ pc' = "measure"
    /\ UNCHANGED <<nmeas, creg, counts, shots, shot>>

\* A measurement after which the run measures the same state vector again.
StepMeasureAgain ==
    /\ pc = "measure"
    /\ nmeas < 2
    /\ \E r \in Draws(state) :
          /\ creg' = measure_all(state, r)
          /\ state' = Collapsed(creg')
          /\ hist' = Append(hist, Op("measure", r, IndexOf(creg'), state, state'))
    /\ nmeas' = nmeas + 1
    /\ pc' = IF nmeas' < 2 THEN "measure" ELSE "tally"
    /\ UNCHANGED <<counts, shots, shot>>

\* circuit.measure(q, c): both qubits are measured into c, the state collapses.
StepMeasure ==
    /\ pc = "measure"
    /\ \E r \in Draws(state) :
          /\ creg' = measure_all(state, r)
          /\ state' = Collapsed(creg')
          /\ hist' = Append(hist, Op("measure", r, IndexOf(creg'), state, state'))
    /\ nmeas' = nmeas + 1
    /\ pc' = "tally"
    /\ UNCHANGED <<counts, shots, shot>>

\* A tally that sets the outcome's entry to 1 instead of adding 1 to it.
TallyOverwrite ==
    /\ pc = "tally"
    /\ counts' = (creg :> 1) @@ counts
    /\ shot' = shot + 1
    /\ pc' = IF shot' = shots THEN "done" ELSE "init"
    /\ UNCHANGED <<state, nmeas, creg, shots, hist>>

\* The shot's outcome is added to the histogram; the run ends after the last shot.
Tally ==
    /\ pc = "tally"
    /\ counts' = IF creg \in DOMAIN counts
                 THEN [counts EXCEPT ![creg] = @ + 1]
                 ELSE counts @@ (creg :> 1)
    /\ shot' = shot + 1
    /\ pc' = IF shot' = shots THEN "done" ELSE "init"
    /\ UNCHANGED <<state, nmeas, creg, shots, hist>>

Next == InitShot \/ StepH \/ StepCX \/ StepMeasure \/ Tally

Spec == Init /\ [][Next]_vars

-----------------------------------------------------------------------------
(* The gates and the measurement as functions: any normalized input, any    *)
(* valid indices, any draw                                                  *)

GateInit ==
    /\ state \in NormalizedInputs
    /\ shots = 0
    /\ shot = 0
    /\ counts = <<>>
    /\ nmeas = 0
    /\ creg = "none"
    /\ hist = <<>>
    /\ pc = "gates"

GateH ==
    /\ pc = "gates"
    /\ Len(hist) < MaxOps
    /\ \E q \in Qubits :
          /\ state' = apply_hadamard(state, q)
          /\ hist' = Append(hist, Op("h", q, q, state, state'))
    /\ UNCHANGED <<nmeas, creg, counts, shots, shot, pc>>

GateCX ==
    /\ pc = "gates"
    /\ Len(hist) < MaxOps
    /\ \E c \in Qubits, t \in Qubits :
          /\ c # t
          /\ state' = apply_controlled_not(state, c, t)
          /\ hist' = Append(hist, Op("cx", c, t, state, state'))
    /\ UNCHANGED <<nmeas, creg, counts, shots, shot, pc>>

GateMeasure ==
    /\ pc = "gates"
    /\ \E r \in Draws(state) :
          /\ creg' = measure_all(state, r)
          /\ state' = Collapsed(creg')
          /\ hist' = Append(hist, Op("measure", r, IndexOf(creg'), state, state'))
    /\ nmeas' = nmeas + 1
    /\ pc' = "measured"
    /\ UNCHANGED <<counts, shots, shot>>

GateNext == GateH \/ GateCX \/ GateMeasure

GateSpec == GateInit /\ [][GateNext]_vars

-----------------------------------------------------------------------------
(* Properties *)

Entries == 1 .. Len(hist)

\* C1: in the run of the Bell circuit every shot's outcome is "00" or "11": the
\* classical register never holds "01" or "10" and the histogram has no such key.
C1_OnlyCorrelatedOutcomes ==
    /\ creg \in {"none", "00", "11"}
    /\ DOMAIN counts \subseteq {"00", "11"}

C1_Witness ==
    /\ pc = "done"
    /\ DOMAIN counts = {"00", "11"}

\* C2: from "00", after H on qubit 0 and CX(0, 1), the squared magnitude is 1/2
\* on "00" and on "11" and the amplitude is 0 on "01" and on "10".
C2_BellAmplitudes ==
    pc = "measure" =>
        /\ 2 * Weight(state, IndexOf("00")) = Scale(state)
        /\ 2 * Weight(state, IndexOf("11")) = Scale(state)
        /\ state.amp[IndexOf("01")] = 0
        /\ state.amp[IndexOf("10")] = 0

C2_Witness ==
    /\ pc = "measure"
    /\ Len(hist) = 2
    /\ hist[1].op = "h" /\ hist[1].pre = BasisState(IndexOf("00"))
    /\ hist[2].op = "cx"

\* C3: a Hadamard or a controlled-NOT applied to a normalized state, on any valid
\* qubit or pair of distinct qubits, returns a normalized state; the state is
\* normalized at every point before the measurement.
C3_GatesPreserveNorm ==
    /\ nmeas = 0 => Normalized(state)
    /\ \A i \in Entries :
          (hist[i].op \in {"h", "cx"} /\ Normalized(hist[i].pre)) => Normalized(hist[i].post)

C3_Witness ==
    /\ Len(hist) = 2
    /\ hist[1].op = "h" /\ hist[2].op = "cx"
    /\ hist[1].pre.den = 3 /\ hist[1].pre.k = 1
    /\ Normalized(hist[1].pre)
    /\ state = hist[2].post

\* C4: two Hadamards in a row on the same qubit of a basis state give the basis
\* state back.
C4_HadamardSelfInverse ==
    \A i \in Entries :
        (/\ i + 1 \in Entries
         /\ hist[i].op = "h" /\ hist[i + 1].op = "h"
         /\ hist[i].a = hist[i + 1].a
         /\ IsBasisState(hist[i].pre))
        => hist[i + 1].post = hist[i].pre

C4_Witness ==
    /\ Len(hist) = 2
    /\ hist[1].op = "h" /\ hist[2].op = "h"
    /\ hist[1].a = 1 /\ hist[2].a = 1
    /\ hist[1].pre = BasisState(2)
    /\ hist[1].post # hist[1].pre

\* C5: two controlled-NOTs in a row with the same control and target give the
\* state back, whatever the state.
C5_ControlledNotSelfInverse ==
    \A i \in Entries :
        (/\ i + 1 \in Entries
         /\ hist[i].op = "cx" /\ hist[i + 1].op = "cx"
         /\ hist[i].a = hist[i + 1].a /\ hist[i].b = hist[i + 1].b)
        => hist[i + 1].post = hist[i].pre

C5_Witness ==
    /\ Len(hist) = 2
    /\ hist[1].op = "cx" /\ hist[2].op = "cx"
    /\ hist[1].a = 1 /\ hist[1].b = 0
    /\ hist[2].a = 1 /\ hist[2].b = 0
    /\ hist[1].post # hist[1].pre
    /\ hist[1].pre.den = 3

\* C6: measuring a state whose whole weight is on one basis state b returns the
\* bitstring of b, whatever the draw.
C6_BasisStateMeasuresItself ==
    \A i \in Entries : \A b \in Basis :
        (hist[i].op = "measure" /\ Weight(hist[i].pre, b) = Scale(hist[i].pre))
        => (hist[i].b = b /\ creg = BitString(b))

C6_Witness ==
    /\ Len(hist) = 1
    /\ hist[1].op = "measure"
    /\ hist[1].pre = BasisState(IndexOf("01"))
    /\ hist[1].a = RngRes - 1
    /\ creg = "01"

C11_FreshStatePerShot ==
    /\ pc = "h" => (state = ZeroState /\ nmeas = 0 /\ hist = <<>>)
    /\ Len(hist) >= 1 => hist[1].pre = ZeroState

C11_Witness ==
    /\ pc = "cx"
    /\ shot >= 1
    /\ Count(counts, "11") >= 1
    /\ hist[1].pre = ZeroState

\* C13: on a basis state the controlled-NOT keeps the control bit, and the target
\* bit is flipped exactly when the control bit is 1.
C13_ControlledNotOnBasis ==
    \A i \in Entries : \A b \in Basis :
        (hist[i].op = "cx" /\ hist[i].pre = BasisState(b))
        => \E b2 \in Basis :
              /\ hist[i].post = BasisState(b2)
              /\ Bit(b2, hist[i].a) = Bit(b, hist[i].a)
              /\ Bit(b2, hist[i].b) = (Bit(b, hist[i].b) + Bit(b, hist[i].a)) % 2

C13_Witness ==
    /\ Len(hist) = 2
    /\ hist[1].op = "cx" /\ hist[1].a = 0 /\ hist[1].b = 1
    /\ hist[1].pre = BasisState(1) /\ hist[1].post = BasisState(3)
    /\ hist[2].op = "cx" /\ hist[2].a = 1 /\ hist[2].b = 0
    /\ hist[2].post = BasisState(2)

\* C14: in every shot the operations come in the circuit's order: the all-zero
\* state, H on qubit 0, CX(0, 1), one measurement, then one tally; nothing is
\* applied after the measurement, and the histogram holds only completed shots
\* until the shot's measurement has been made.
C14_CircuitOrder ==
    /\ Len(hist) = CASE pc = "h" -> 0
                     [] pc = "cx" -> 1
                     [] pc = "measure" -> 2
                     [] pc = "tally" -> 3
                     [] pc \in {"init", "done"} -> IF shot = 0 THEN 0 ELSE 3
    /\ Len(hist) >= 1 => (hist[1].op = "h" /\ hist[1].a = 0 /\ hist[1].pre = ZeroState)
    /\ Len(hist) >= 2 => (hist[2].op = "cx" /\ hist[2].a = 0 /\ hist[2].b = 1
                          /\ hist[2].pre = hist[1].post)
    /\ Len(hist) >= 3 => (hist[3].op = "measure" /\ hist[3].pre = hist[2].post
                          /\ state = hist[3].post)
    /\ pc \in {"h", "cx", "measure", "tally"} => Total(counts) = shot
    /\ (pc \in {"init", "done"} /\ shot >= 1) => (Total(counts) = shot /\ Count(counts, creg) >= 1)

C14_Witness ==
    /\ pc = "init"
    /\ shot = 2
    /\ Len(hist) = 3
    /\ Total(counts) = 2

\* C15: the classical register is written by the measurement only: it is unwritten
\* as long as the shot's state has not been measured, gates included, and after
\* the measurement it holds that measurement's one outcome.
C15_OnlyMeasurementWritesCreg ==
    /\ nmeas = 0 => creg = "none"
    /\ nmeas >= 1 => /\ hist[Len(hist)].op = "measure"
                     /\ creg = BitString(hist[Len(hist)].b)
                     /\ creg \in Outcomes

C15_Witness ==
    /\ pc = "tally"
    /\ creg = "11"
    /\ Len(hist) = 3
    /\ hist[2].op = "cx"

\* C18: a completed shot adds exactly 1 to exactly one histogram entry and leaves
\* the others alone; the counts sum to the number of completed shots, and to
\* shots when the run is done; no count ever decreases.
C18_OneIncrementPerShot ==
    [][/\ Total(counts') = shot'
       /\ pc' = "done" => Total(counts') = shots
       /\ \A o \in Outcomes : Count(counts', o) >= Count(counts, o)
       /\ shot' # shot =>
             /\ shot' = shot + 1
             /\ \E o \in Outcomes :
                   /\ Count(counts', o) = Count(counts, o) + 1
                   /\ \A o2 \in Outcomes \ {o} : Count(counts', o2) = Count(counts, o2)
       /\ shot' = shot => counts' = counts]_vars

C18_Witness ==
    /\ pc = "done"
    /\ shots = 3
    /\ Count(counts, "00") = 2
    /\ Count(counts, "11") = 1

\* C19: the measurement of a normalized state never returns a basis state whose
\* amplitude is zero, whatever the draw.
C19_NoZeroAmplitudeOutcome ==
    \A i \in Entries :
        (hist[i].op = "measure" /\ Normalized(hist[i].pre))
        => (hist[i].pre.amp[hist[i].b] # 0 /\ hist[i].pre.amp[IndexOf(creg)] # 0)

C19_Witness ==
    /\ Len(hist) = 1
    /\ hist[1].op = "measure"
    /\ hist[1].pre.den = 3
    /\ hist[1].pre.amp[0] # 0 /\ hist[1].pre.amp[1] = 0 /\ hist[1].pre.amp[2] # 0
    /\ hist[1].a = RngRes * Weight(hist[1].pre, 0)
    /\ creg = "10"

=============================================================================
